---- MODULE Spec2Model ----
(***************************************************************************)
(* A model of umamusu-utils: the asset-bundle key derivation and XOR       *)
(* decryptor (assets/dump.py), the database key derivation and the lazily  *)
(* opened database connections (shared.py), the row loop of assets_dump    *)
(* and the file naming of texture_dump (assets/dump.py).                   *)
(*                                                                         *)
(* Bytes are integers 0..255; a Python bytes value b is the sequence whose *)
(* element n+1 is b[n].                                                    *)
(***************************************************************************)
EXTENDS Integers, Sequences, FiniteSets, TLC

VARIABLES
    \* ---- generate_keys / decrypt_uma_assetbundle (assets/dump.py)
    byteorder,      \* sys.byteorder of the host: "little" or "big"
    base_keys,      \* argument base_keys of generate_keys
    record_key,     \* argument key of generate_keys (a Python int)
    data,           \* content of the file decrypt_uma_assetbundle reads
    keys,           \* value returned by generate_keys
    decrypted,      \* outcome of decrypt_uma_assetbundle
    cpc,            \* position of the derive-then-decrypt pipeline
    \* ---- gen_final_key (shared.py)
    db_base,        \* the module global DBBaseKey, as bound when gen_final_key runs
    db_key,         \* argument key of gen_final_key
    final_key,      \* outcome of gen_final_key
    kpc,            \* position of the gen_final_key call
    \* ---- texture_dump (assets/dump.py)
    tex_bundle,     \* the Texture2D and Sprite objects of the bundle
    images,         \* the list images built by lines 144-170, as names
    ti,             \* index i of the saving loop
    names,          \* the set names
    saved,          \* the file names written so far, in order
    tex_errors,     \* errors texture_dump has logged
    tpc,            \* position inside texture_dump
    \* ---- master_cursor / meta_cursor (shared.py)
    meta_conn,      \* the module global _meta_conn: None or a connection
    master_conn,    \* the module global _master_conn: None or a connection
    connections,    \* every apsw.Connection opened so far, in order
    cursors,        \* every cursor handed out so far, in order
    last_call,      \* the last call of a cursor function and how it ended
    ncalls,         \* number of calls so far
    \* ---- assets_dump (assets/dump.py)
    skip_existing,  \* args.skip_existing of the current run
    db_rows,        \* the rows the query of line 75 selects
    storage,        \* the paths that exist under storage_path / "assets"
    rows,           \* the local rows (the result of fetchall)
    pos,            \* number of rows the loop has taken from rows
    row_i,          \* the local i: Unbound until the loop binds it
    skipped,        \* the local skipped
    log,            \* the records logged by the current run
    dump_result,    \* the exception assets_dump ended with, "none" if none
    dpc,            \* position inside assets_dump
    run,            \* number of the current run (process)
    visited,        \* history: what happened at every row visited, all runs
    dumped          \* history: the rows whose images a run has saved

cryptoVars == <<byteorder, base_keys, record_key, data, keys, decrypted, cpc>>
keyVars == <<db_base, db_key, final_key, kpc>>
texVars == <<tex_bundle, images, ti, names, saved, tex_errors, tpc>>

connVars == <<meta_conn, master_conn, connections, cursors, last_call, ncalls>>

dumpVars == <<skip_existing, db_rows, storage, rows, pos, row_i, skipped, log,
              dump_result, dpc, run, visited, dumped>>

vars == <<cryptoVars, keyVars, texVars, connVars, dumpVars>>

(***************************************************************************)
(* Bounds of the model.                                                    *)
(***************************************************************************)
MaxBaseLen == 2     \* longest base key drawn besides ABKey itself
MaxTails == 3       \* number of file lengths drawn beyond the header
TailStep == 31      \* distance between two such lengths
MaxSeed == 1        \* file contents drawn per length
MaxKeyLen == 15     \* longest key handed to gen_final_key
MaxTextures == 3    \* most Texture2D objects in a bundle
MaxSprites == 1     \* most Sprite objects in a bundle
MaxCalls == 4       \* most calls of the cursor functions in one process
MaxRows == 3        \* most rows the query returns
MaxRuns == 2        \* runs of assets_dump over the same storage

(***************************************************************************)
(* Byte helpers.                                                           *)
(***************************************************************************)
RECURSIVE BitXor(_, _, _)
BitXor(a, b, n) ==
    IF n = 0 THEN 0
    ELSE (((a % 2) + (b % 2)) % 2) + 2 * BitXor(a \div 2, b \div 2, n - 1)

\* Python's a ^ b on two bytes.
Xor(a, b) == BitXor(a, b, 8)

\* Python's s[::-1].
Reverse(s) == [n \in 1..Len(s) |-> s[Len(s) + 1 - n]]

ABKey == <<83, 43, 70, 49, 228, 167, 185, 71, 62, 124, 251>>

HEADER_SIZE == 256

(***************************************************************************)
(* generate_keys                                                           *)
(***************************************************************************)
\* The n low bytes of v, least significant first.  \div and % round towards
\* minus infinity, so a negative v is read in two's complement: this is
\* key & 0xFFFFFFFFFFFFFFFF followed by struct.pack('<Q', ...) for n = 8.
RECURSIVE LowBytesLE(_, _)
LowBytesLE(v, n) ==
    IF n = 0 THEN <<>>
    ELSE <<v % 256>> \o LowBytesLE(v \div 256, n - 1)

struct_pack_Q(key) == LowBytesLE(key, 8)

\* key_bytes as generate_keys computes it on a host of the given byte order.
key_bytes_on(order, key) ==
    IF order # "little" THEN Reverse(struct_pack_Q(key))
    ELSE struct_pack_Q(key)

\* The inner loop, for j in range(8): keys[base_offset + j] = b ^ key_bytes[j],
\* fills the 8 bytes from base_offset on.
gk_inner(b, key_bytes) == [j \in 1..8 |-> Xor(b, key_bytes[j])]

\* The outer loop, for i in range(base_len), with base_offset = i * 8: the
\* blocks follow each other in the order of i, so keys[0 : i * 8] is ks
\* when iteration i starts.
RECURSIVE gk_outer(_, _, _, _)
gk_outer(ks, base, key_bytes, i) ==
    IF i = Len(base) THEN ks
    ELSE gk_outer(ks \o gk_inner(base[i + 1], key_bytes), base, key_bytes, i + 1)

generate_keys_on(order, base, key) ==
    gk_outer(<<>>, base, key_bytes_on(order, key), 0)

generate_keys(base, key) == generate_keys_on(byteorder, base, key)

(***************************************************************************)
(* decrypt_uma_assetbundle                                                 *)
(***************************************************************************)
Returned(v) == [raised |-> "none", value |-> v]
Raised(e) == [raised |-> e, value |-> <<>>]

\* The index the decryptor reads the keystream at, for file offset i.
\* A faulty variant: the offset counted from the end of the header.
KeyIndexPastHeader(i, base_keys_len) == (i - HEADER_SIZE) % (base_keys_len * 8)

KeyIndex(i, base_keys_len) == i % (base_keys_len * 8)

\* The offsets the loop visits: range(HEADER_SIZE, total_len).
LoopOffsets(total_len) == HEADER_SIZE..(total_len - 1)

\* The offsets at which keys[i % (base_keys_len * 8)] cannot be read.
BadOffsets(total_len, ks, base_keys_len) ==
    {i \in LoopOffsets(total_len) :
        \/ base_keys_len * 8 = 0
        \/ KeyIndex(i, base_keys_len) >= Len(ks)}

\* for i in range(HEADER_SIZE, total_len): decrypted[i] ^= keys[i % (base_keys_len * 8)]
\* The iterations are independent of each other, so the loop is the
\* pointwise update below; it stops at the first offset that raises.
dec_loop(buf, ks, base_keys_len) ==
    IF BadOffsets(Len(buf), ks, base_keys_len) # {}
    THEN IF base_keys_len * 8 = 0 THEN Raised("ZeroDivisionError")
         ELSE Raised("IndexError")
    ELSE Returned([n \in 1..Len(buf) |->
            IF n - 1 \in LoopOffsets(Len(buf))
            THEN Xor(buf[n], ks[KeyIndex(n - 1, base_keys_len) + 1])
            ELSE buf[n]])

decrypt_uma_assetbundle(content, ks, base_keys_len) ==
    dec_loop(content, ks, base_keys_len)

(***************************************************************************)
(* Inputs of the derive-then-decrypt pipeline.                             *)
(***************************************************************************)
Prefix(s, n) == [k \in 1..n |-> s[k]]

\* Base keys: the empty key, the prefixes of ABKey up to MaxBaseLen, ABKey.
BaseKeySamples == {Prefix(ABKey, n) : n \in 0..MaxBaseLen} \cup {ABKey}

\* Record keys, as a signed 64-bit DB column gives them.
RecordKeySamples == {0, 1, 258, 16909060, -1, -2, -16909061}

\* File lengths: empty, around the header, and MaxTails lengths beyond it
\* (the longest passes HEADER_SIZE + 8 * Len(ABKey), so the keystream wraps).
DataLens ==
    {0, HEADER_SIZE - 1, HEADER_SIZE} \cup
    {HEADER_SIZE + k * TailStep : k \in 1..MaxTails}

FileContent(len, seed) ==
    [n \in 1..len |-> ((seed * 101) + (n * 7) + ((n \div 256) * 3)) % 256]

CryptoIdle ==
    /\ byteorder = "little"
    /\ base_keys = <<>>
    /\ record_key = 0
    /\ data = <<>>
    /\ keys = <<>>
    /\ decrypted = Returned(<<>>)
    /\ cpc = "off"

\* What the steps of the pipeline leave alone.
CryptoOnly == UNCHANGED <<keyVars, texVars, connVars, dumpVars>>

CryptoInit ==
    /\ byteorder \in {"little", "big"}
    /\ base_keys \in BaseKeySamples
    /\ record_key \in RecordKeySamples
    /\ \E len \in DataLens, seed \in 0..MaxSeed : data = FileContent(len, seed)
    /\ keys = <<>>
    /\ decrypted = Returned(<<>>)
    /\ cpc = "start"

\* fKey = generate_keys(base_keys, key)
DoGenerateKeys ==
    /\ cpc = "start"
    /\ keys' = generate_keys(base_keys, record_key)
    /\ cpc' = "keyed"
    /\ UNCHANGED <<byteorder, base_keys, record_key, data, decrypted>>
    /\ CryptoOnly

\* decrypt_uma_assetbundle(file, fKey, len(base_keys))
DoDecrypt ==
    /\ cpc = "keyed"
    /\ decrypted' = decrypt_uma_assetbundle(data, keys, Len(base_keys))
    /\ cpc' = "done"
    /\ UNCHANGED <<byteorder, base_keys, record_key, data, keys>>
    /\ CryptoOnly

(***************************************************************************)
(* Claims about generate_keys and decrypt_uma_assetbundle.                 *)
(***************************************************************************)
\* Byte j (least significant first) of k mod 2^64, for |k| < 2^31, written
\* without LowBytesLE: the bytes of a negative k are the complements of the
\* bytes of -k - 1.
Pow256(j) == IF j = 0 THEN 1 ELSE IF j = 1 THEN 256 ELSE IF j = 2 THEN 65536 ELSE 16777216

RECURSIVE ByteOfMod64(_, _)
ByteOfMod64(k, j) ==
    IF k < 0 THEN 255 - ByteOfMod64((-k) - 1, j)
    ELSE IF j <= 3 THEN (k \div Pow256(j)) % 256
    ELSE 0

\* C1: generate_keys(base_keys, record_key) returns Len(base_keys) * 8 bytes,
\* and the byte at i*8+j is base_keys[i] XOR byte j (least significant
\* first) of record_key mod 2^64.
C1_KeystreamBytes ==
    cpc \in {"keyed", "done"} =>
        /\ Len(keys) = Len(base_keys) * 8
        /\ \A i \in 0..(Len(base_keys) - 1), j \in 0..7 :
              keys[i * 8 + j + 1] = Xor(base_keys[i + 1], ByteOfMod64(record_key, j))

\* C2: the keystream does not depend on the host's byte order: it is the one
\* a little-endian host produces.
C2_HostIndependent ==
    cpc \in {"keyed", "done"} =>
        keys = generate_keys_on("little", base_keys, record_key)

\* C3: with a non-empty keystream the decryptor returns a buffer as long as
\* the file, equal to it below offset HEADER_SIZE and equal to
\* file[i] XOR keystream[i mod Len(keystream)] from HEADER_SIZE on (i the
\* absolute offset); a file shorter than the header comes back unchanged.
C3_DecryptXor ==
    (cpc = "done" /\ Len(keys) > 0) =>
        /\ decrypted.raised = "none"
        /\ Len(decrypted.value) = Len(data)
        /\ \A i \in 0..(Len(data) - 1) :
              decrypted.value[i + 1] =
                 IF i < 256 THEN data[i + 1]
                 ELSE Xor(data[i + 1], keys[(i % Len(keys)) + 1])
        /\ (Len(data) < 256 => decrypted.value = data)

\* C3's case: the 88-byte keystream of ABKey wraps around on a file longer
\* than header plus keystream, and the bytes past the header are changed.
C3_Witness ==
    /\ cpc = "done"
    /\ base_keys = ABKey
    /\ Len(data) > HEADER_SIZE + Len(keys)
    /\ decrypted.raised = "none"
    /\ decrypted.value # data
    /\ Prefix(decrypted.value, HEADER_SIZE) = Prefix(data, HEADER_SIZE)

\* C4: with a keystream of length 0 the decryptor fails, whatever the file.
C4_EmptyKeystreamFails ==
    (cpc = "done" /\ Len(keys) = 0) => decrypted.raised # "none"

CryptoNext == DoGenerateKeys \/ DoDecrypt

(***************************************************************************)
(* gen_final_key                                                           *)
(***************************************************************************)
GlobalDBKey == <<86, 99, 107, 99, 66, 114, 55, 118, 101, 112, 65, 98>>

DBBaseKey == <<241, 112, 206, 164, 223, 206, 163, 225, 165, 216, 199, 11, 209, 0, 0, 0>>

\* A faulty variant: the index into the base key taken modulo its length.
gen_final_key_mod_len(base, key) ==
    IF Len(base) < 13 THEN Raised("ValueError")
    ELSE Returned([n \in 1..Len(key) |-> Xor(key[n], base[((n - 1) % Len(base)) + 1])])

\* if len(DBBaseKey) < 13: raise ValueError("Invalid Base Key length")
\* return bytes((key[i] ^ DBBaseKey[i % 13]) for i in range(len(key)))
gen_final_key_with(base, key) ==
    IF Len(base) < 13 THEN Raised("ValueError")
    ELSE Returned([n \in 1..Len(key) |-> Xor(key[n], base[((n - 1) % 13) + 1])])

gen_final_key(key) == gen_final_key_with(db_base, key)

\* Keys: GlobalDBKey and keys of every length up to MaxKeyLen.
DbKeySamples ==
    {GlobalDBKey} \cup {FileContent(len, seed) : len \in 0..MaxKeyLen, seed \in 0..MaxSeed}

KeyIdle ==
    /\ db_base = DBBaseKey
    /\ db_key = <<>>
    /\ final_key = Returned(<<>>)
    /\ kpc = "off"

KeyOnly == UNCHANGED <<cryptoVars, texVars, connVars, dumpVars>>

KeyInit ==
    /\ db_base \in {Prefix(DBBaseKey, n) : n \in 0..Len(DBBaseKey)}
    /\ db_key \in DbKeySamples
    /\ final_key = Returned(<<>>)
    /\ kpc = "start"

DoGenFinalKey ==
    /\ kpc = "start"
    /\ final_key' = gen_final_key(db_key)
    /\ kpc' = "done"
    /\ UNCHANGED <<db_base, db_key>>
    /\ KeyOnly

\* C5: gen_final_key succeeds exactly when the base key has at least 13
\* bytes; it then returns Len(key) bytes, byte i being
\* key[i] XOR base[i mod 13]; with a shorter base it raises the invalid
\* base key length error (a ValueError) and computes nothing.
C5_FinalKey ==
    kpc = "done" =>
        IF Len(db_base) >= 13
        THEN /\ final_key.raised = "none"
             /\ Len(final_key.value) = Len(db_key)
             /\ \A i \in 0..(Len(db_key) - 1) :
                   final_key.value[i + 1] = Xor(db_key[i + 1], db_base[(i % 13) + 1])
        ELSE final_key = Raised("ValueError")

\* C5's case: the 16-byte base and a key longer than 13 bytes, so that the
\* index wraps at 13.
C5_Witness ==
    /\ kpc = "done"
    /\ db_base = DBBaseKey
    /\ Len(db_key) > 13
    /\ final_key.raised = "none"
    /\ final_key.value[14] = Xor(db_key[14], 241)

KeyNext == DoGenFinalKey

(***************************************************************************)
(* texture_dump.  A file name is its stem, a sequence of characters, and   *)
(* its suffix ("" or an extension with its dot), as pathlib splits it.     *)
(* The pixels of an image, and so image_resize and crop, are not part of   *)
(* the state: only under which name each image is saved.                   *)
(***************************************************************************)
Name(stem, suffix) == [stem |-> stem, suffix |-> suffix]

NoName == Name(<<>>, "")

Digits == <<"0", "1", "2", "3", "4", "5", "6", "7", "8", "9">>

\* str(n) for n >= 0.
RECURSIVE Str(_)
Str(n) == IF n < 10 THEN <<Digits[n + 1]>> ELSE Str(n \div 10) \o <<Digits[(n % 10) + 1]>>

\* Lines 131-142: the names of the textures that parse, and the number of
\* "failed to parse texture image" errors logged.
RECURSIVE texture_images(_, _)
texture_images(textures, path_name) ==
    IF textures = <<>> THEN <<>>
    ELSE LET t == Head(textures)
             rest == texture_images(Tail(textures), path_name)
         IN IF ~t.parses THEN rest
            ELSE <<IF t.container # NoName THEN t.container ELSE path_name>> \o rest

ParseErrors(textures) == Cardinality({n \in 1..Len(textures) : ~textures[n].parses})

\* Lines 152-164: the names of the sprites cut out of the atlas image.
RECURSIVE sprite_images(_, _, _)
sprite_images(sprites, i, image_name) ==
    IF i = Len(sprites) THEN <<>>
    ELSE LET sp == sprites[i + 1]
             sprite_name ==
                 IF sp.m_Name # NoName THEN sp.m_Name
                 ELSE Name(Str(i) \o <<"_">> \o image_name.stem, image_name.suffix)
         IN (IF sp.rect THEN <<sprite_name>> ELSE <<>>)
            \o sprite_images(sprites, i + 1, image_name)

\* Lines 130-170: the list images, or the IndexError of texture_images[0].
collect_images(bundle) ==
    LET tis == texture_images(bundle.textures, bundle.path_name)
    IN IF bundle.sprites # <<>>
       THEN IF tis = <<>> THEN Raised("IndexError")
            ELSE Returned(<<tis[1]>> \o sprite_images(bundle.sprites, 0, tis[1]))
       ELSE Returned(tis)

\* Lines 175-181: the name image i is saved under, given the set names.
save_name(image_name, i, seen) ==
    LET with_png == IF image_name.suffix = "" THEN Name(image_name.stem, ".png")
                    ELSE image_name
    IN IF with_png \in seen
       THEN Name(with_png.stem \o <<"_">> \o Str(i), with_png.suffix)
       ELSE with_png

\* Lines 172-184, the whole loop: the names written, in order.
RECURSIVE save_all(_, _, _, _)
save_all(imgs, i, seen, out) ==
    IF i = Len(imgs) THEN out
    ELSE LET n == save_name(imgs[i + 1], i, seen)
         IN save_all(imgs, i + 1, seen \cup {n}, Append(out, n))

\* texture_dump as a whole: what it raises, writes and logs.
texture_dump(bundle) ==
    LET c == collect_images(bundle)
    IN [raised |-> c.raised,
        saved |-> IF c.raised = "none" THEN save_all(c.value, 0, {}, <<>>) ELSE <<>>,
        errors |-> ParseErrors(bundle.textures)]

\* Sequences over S of length at most n.
SeqUpTo(S, n) == UNION {[1..k -> S] : k \in 0..n}

NameSamples ==
    {Name(<<"a">>, ".png"), Name(<<"a">>, ""), Name(<<"a", "_", "2">>, ".png")}

TextureSamples == [parses : BOOLEAN, container : NameSamples \cup {NoName}]

SpriteSamples == [rect : BOOLEAN, m_Name : {NoName, Name(<<"a">>, "")}]

TexIdle ==
    /\ tex_bundle = [textures |-> <<>>, sprites |-> <<>>, path_name |-> NoName]
    /\ images = <<>>
    /\ ti = 0
    /\ names = {}
    /\ saved = <<>>
    /\ tex_errors = 0
    /\ tpc = "off"

TexInit ==
    /\ tex_bundle \in [textures : SeqUpTo(TextureSamples, MaxTextures) \ {<<>>},
                        sprites : SeqUpTo(SpriteSamples, MaxSprites),
                        path_name : {Name(<<"p">>, "")}]
    /\ images = <<>>
    /\ ti = 0
    /\ names = {}
    /\ saved = <<>>
    /\ tex_errors = 0
    /\ tpc = "collect"

TexOnly == UNCHANGED <<cryptoVars, keyVars, connVars, dumpVars>>

\* Lines 130-170.
TexCollect ==
    /\ tpc = "collect"
    /\ LET c == collect_images(tex_bundle)
       IN /\ images' = c.value
          /\ tpc' = IF c.raised = "none" THEN "save" ELSE "raised"
    /\ tex_errors' = ParseErrors(tex_bundle.textures)
    /\ UNCHANGED <<tex_bundle, ti, names, saved>>
    /\ TexOnly

\* One iteration of the loop of lines 173-184.
TexSave ==
    /\ tpc = "save"
    /\ ti < Len(images)
    /\ LET n == save_name(images[ti + 1], ti, names)
       IN /\ saved' = Append(saved, n)
          /\ names' = names \cup {n}
    /\ ti' = ti + 1
    /\ UNCHANGED <<tex_bundle, images, tex_errors, tpc>>
    /\ TexOnly

\* The loop is over: texture_dump returns.
TexReturn ==
    /\ tpc = "save"
    /\ ti = Len(images)
    /\ tpc' = "returned"
    /\ UNCHANGED <<tex_bundle, images, ti, names, saved, tex_errors>>
    /\ TexOnly

TexNext == TexCollect \/ TexSave \/ TexReturn

\* C7: within one texture_dump call the file names the images are saved
\* under are pairwise distinct, so no earlier image is overwritten.
C7_DistinctNames ==
    \A a, b \in 1..Len(saved) : a # b => saved[a] # saved[b]

(***************************************************************************)
(* master_cursor and meta_cursor.  A connection is its index in            *)
(* connections; None is 0.                                                 *)
(***************************************************************************)
None == 0

HexDigits == <<"0", "1", "2", "3", "4", "5", "6", "7", "8", "9",
               "a", "b", "c", "d", "e", "f">>

\* bytes.hex()
RECURSIVE hex(_)
hex(bs) ==
    IF bs = <<>> THEN <<>>
    ELSE <<HexDigits[(Head(bs) \div 16) + 1], HexDigits[(Head(bs) % 16) + 1]>> \o hex(Tail(bs))

NoPragma == <<>>

\* A faulty variant: the handle is not looked at, every call opens a connection.
AlwaysOpen(conn) == TRUE

\* if _meta_conn is None / if _master_conn is None
MustOpen(conn) == conn = None

\* The path a cursor function opens: the configured one when it exists,
\* else the one under appdata_path; "missing" when neither exists.
ResolvePath(configured_exists, fallback_exists) ==
    IF configured_exists THEN "configured"
    ELSE IF fallback_exists THEN "appdata"
    ELSE "missing"

\* meta_cursor(), lines 72-86.  configured_exists and fallback_exists say
\* whether state.meta_path and appdata_path / "meta" exist; opens whether
\* apsw.Connection succeeds.  The result is the new values of _meta_conn,
\* connections and cursors, and how the call ended.
meta_cursor(configured_exists, fallback_exists, opens) ==
    LET path == ResolvePath(configured_exists, fallback_exists)
        same == [conn |-> meta_conn, conns |-> connections, curs |-> cursors]
    IN IF MustOpen(meta_conn) /\ path = "missing"
       THEN same @@ [result |-> "FileNotFoundError"]
       ELSE IF MustOpen(meta_conn) /\ ~opens
       THEN same @@ [result |-> "apsw.Error"]
       ELSE LET conns1 == IF MustOpen(meta_conn)
                          THEN Append(connections,
                                      [db |-> "meta", path |-> path, pragma |-> NoPragma])
                          ELSE connections
                conn1 == IF MustOpen(meta_conn) THEN Len(conns1) ELSE meta_conn
                final == gen_final_key(GlobalDBKey)
            IN IF final.raised # "none"
               THEN [conn |-> conn1, conns |-> conns1, curs |-> cursors,
                     result |-> final.raised]
               ELSE LET conns2 == [conns1 EXCEPT ![conn1].pragma = hex(final.value)]
                    IN [conn |-> conn1, conns |-> conns2,
                        curs |-> Append(cursors, [db |-> "meta", conn |-> conn1,
                                                  pragma |-> conns2[conn1].pragma]),
                        result |-> "cursor"]

\* master_cursor(), lines 39-52.
master_cursor(configured_exists, fallback_exists, opens) ==
    LET path == ResolvePath(configured_exists, fallback_exists)
        same == [conn |-> master_conn, conns |-> connections, curs |-> cursors]
    IN IF MustOpen(master_conn) /\ path = "missing"
       THEN same @@ [result |-> "FileNotFoundError"]
       ELSE IF MustOpen(master_conn) /\ ~opens
       THEN same @@ [result |-> "apsw.Error"]
       ELSE LET conns1 == IF MustOpen(master_conn)
                          THEN Append(connections,
                                      [db |-> "master", path |-> path, pragma |-> NoPragma])
                          ELSE connections
                conn1 == IF MustOpen(master_conn) THEN Len(conns1) ELSE master_conn
            IN [conn |-> conn1, conns |-> conns1,
                curs |-> Append(cursors, [db |-> "master", conn |-> conn1,
                                          pragma |-> conns1[conn1].pragma]),
                result |-> "cursor"]

ConnIdle ==
    /\ meta_conn = None
    /\ master_conn = None
    /\ connections = <<>>
    /\ cursors = <<>>
    /\ last_call = [fn |-> "none", result |-> "none"]
    /\ ncalls = 0

ConnOnly == UNCHANGED <<cryptoVars, keyVars, texVars, dumpVars>>

CallMetaCursor ==
    /\ ncalls < MaxCalls
    /\ \E configured_exists, fallback_exists, opens \in BOOLEAN :
          LET r == meta_cursor(configured_exists, fallback_exists, opens)
          IN /\ meta_conn' = r.conn
             /\ connections' = r.conns
             /\ cursors' = r.curs
             /\ last_call' = [fn |-> "meta_cursor", result |-> r.result]
    /\ ncalls' = ncalls + 1
    /\ UNCHANGED master_conn
    /\ ConnOnly

CallMasterCursor ==
    /\ ncalls < MaxCalls
    /\ \E configured_exists, fallback_exists, opens \in BOOLEAN :
          LET r == master_cursor(configured_exists, fallback_exists, opens)
          IN /\ master_conn' = r.conn
             /\ connections' = r.conns
             /\ cursors' = r.curs
             /\ last_call' = [fn |-> "master_cursor", result |-> r.result]
    /\ ncalls' = ncalls + 1
    /\ UNCHANGED meta_conn
    /\ ConnOnly

ConnNext == CallMetaCursor \/ CallMasterCursor

ConnectionsTo(db) == {c \in 1..Len(connections) : connections[c].db = db}

\* gen_final_key(GlobalDBKey).hex() with the constants of shared.py.
ExpectedHexKey ==
    <<"a", "7", "1", "3", "a", "5", "c", "7", "9", "d", "b", "c",
      "9", "4", "9", "7", "c", "0", "a", "8", "8", "6", "6", "9">>

\* C10: at most one connection to the metadata DB and at most one to the
\* master DB is ever opened and every cursor is on it; every metadata cursor
\* is handed out with the hex key of GlobalDBKey applied to its connection
\* as the hexkey pragma; a call that fails because the DB file is missing
\* leaves the connection handle unset.
C10_OneKeyedConnection ==
    /\ Cardinality(ConnectionsTo("meta")) <= 1
    /\ Cardinality(ConnectionsTo("master")) <= 1
    /\ \A k \in 1..Len(cursors) :
          /\ cursors[k].conn \in ConnectionsTo(cursors[k].db)
          /\ cursors[k].conn = (IF cursors[k].db = "meta" THEN meta_conn ELSE master_conn)
          /\ cursors[k].db = "meta" => cursors[k].pragma = ExpectedHexKey
    /\ (last_call = [fn |-> "meta_cursor", result |-> "FileNotFoundError"]
          => meta_conn = None)
    /\ (last_call = [fn |-> "master_cursor", result |-> "FileNotFoundError"]
          => master_conn = None)

\* C10's case: a call failed on a missing file, later calls handed out two
\* metadata cursors and a master cursor.
C10_Witness ==
    /\ Len(cursors) = 3
    /\ ncalls = 4
    /\ Cardinality({k \in 1..Len(cursors) : cursors[k].db = "meta"}) = 2
    /\ Len(connections) = 2

(***************************************************************************)
(* assets_dump.  A row is (n, h, m, e) of table a together with what the   *)
(* environment holds for it: whether the blob dat/<h[:2]>/<h> exists,      *)
(* whether it can be read and decrypted, whether UnityPy.load accepts the  *)
(* decrypted bytes, and the Texture2D and Sprite objects it then yields.   *)
(* A relative path is the sequence of its components.                      *)
(***************************************************************************)
Unbound == -1

Row(abs, path, blob, readable, loads, textures, sprites) ==
    [abs |-> abs, path |-> path, blob |-> blob, readable |-> readable, loads |-> loads,
     bundle |-> [textures |-> textures, sprites |-> sprites,
                 path_name |-> Name(<<path[Len(path)]>>, "")]]

GoodTexture == [parses |-> TRUE, container |-> Name(<<"a">>, ".png")]
BadTexture == [parses |-> FALSE, container |-> NoName]
ASprite == [rect |-> TRUE, m_Name |-> NoName]

RowSamples ==
    { Row(TRUE,  <<"x">>,      TRUE,  TRUE,  TRUE,  <<GoodTexture>>, <<>>),
      Row(FALSE, <<"a", "b">>, TRUE,  TRUE,  TRUE,  <<GoodTexture>>, <<>>),
      Row(FALSE, <<"b">>,      FALSE, TRUE,  TRUE,  <<GoodTexture>>, <<>>),
      Row(FALSE, <<"c">>,      TRUE,  FALSE, TRUE,  <<GoodTexture>>, <<>>),
      Row(FALSE, <<"d">>,      TRUE,  TRUE,  FALSE, <<>>, <<>>),
      Row(FALSE, <<"a">>,      TRUE,  TRUE,  TRUE,  <<>>, <<>>),
      Row(FALSE, <<"f">>,      TRUE,  TRUE,  TRUE,  <<BadTexture, GoodTexture>>, <<>>),
      Row(FALSE, <<"g">>,      TRUE,  TRUE,  TRUE,  <<BadTexture>>, <<ASprite>>) }

\* The query results: up to MaxRows rows, each row of the table once.
RowLists ==
    {rs \in SeqUpTo(RowSamples, MaxRows) :
        \A a, b \in 1..Len(rs) : a # b => rs[a] # rs[b]}

\* dump_path.mkdir(parents=True, exist_ok=True): the path and its parents.
mkdir_parents(fs, path) == fs \cup {Prefix(path, n) : n \in 1..Len(path)}

\* The way one row leaves the loop body, lines 88-125.
row_branch(row, skip, fs) ==
    IF row.abs THEN "absolute"
    ELSE IF skip /\ row.path \in fs THEN "exists"
    ELSE IF ~row.blob THEN "missing"
    ELSE IF ~row.readable THEN "decrypt_failed"
    ELSE IF ~row.loads THEN "load_failed"
    ELSE IF row.bundle.textures = <<>> THEN "no_texture"
    ELSE IF texture_dump(row.bundle).raised # "none" THEN "texture_failed"
    ELSE "dumped"

\* A faulty variant: the missing blob is not counted.
skipped_after_missing_uncounted(branch, n) ==
    IF branch \in {"exists", "decrypt_failed", "load_failed", "texture_failed"}
    THEN n + 1 ELSE n

\* skipped += 1 of lines 96, 101, 110 and 124.
skipped_after(branch, n) ==
    IF branch \in {"exists", "missing", "decrypt_failed", "load_failed", "texture_failed"}
    THEN n + 1 ELSE n

\* Line 104 is reached by the rows that pass the two skips.
storage_after(branch, row, fs) ==
    IF branch \in {"absolute", "exists", "missing"} THEN fs
    ELSE mkdir_parents(fs, row.path)

\* What the row logs: logger.error of lines 109 and 123, and the errors
\* texture_dump logs at line 135.
logged_by(branch, row, index) ==
    (IF branch = "decrypt_failed"
     THEN <<[level |-> "error", msg |-> "Failed to decrypt", row |-> index]>>
     ELSE <<>>)
    \o (IF branch \in {"texture_failed", "dumped"}
        THEN [k \in 1..texture_dump(row.bundle).errors |->
                 [level |-> "error", msg |-> "failed to parse texture image", row |-> index]]
        ELSE <<>>)
    \o (IF branch \in {"load_failed", "texture_failed"}
        THEN <<[level |-> "error", msg |-> "Failed to load", row |-> index]>>
        ELSE <<>>)

DumpIdle ==
    /\ skip_existing = FALSE
    /\ db_rows = <<>>
    /\ storage = {}
    /\ rows = <<>>
    /\ pos = 0
    /\ row_i = Unbound
    /\ skipped = 0
    /\ log = <<>>
    /\ dump_result = "none"
    /\ dpc = "off"
    /\ run = 0
    /\ visited = <<>>
    /\ dumped = {}

DumpInit ==
    /\ skip_existing \in BOOLEAN
    /\ db_rows \in RowLists
    /\ storage = {}
    /\ rows = <<>>
    /\ pos = 0
    /\ row_i = Unbound
    /\ skipped = 0
    /\ log = <<>>
    /\ dump_result = "none"
    /\ dpc = "start"
    /\ run = 1
    /\ visited = <<>>
    /\ dumped = {}

DumpOnly == UNCHANGED <<cryptoVars, keyVars, texVars>>

\* Lines 62-84: the AppData check, the query, skipped = 0.
DumpStart ==
    /\ dpc = "start"
    /\ \E appdata_exists, configured_exists, fallback_exists, opens \in BOOLEAN :
          /\ fallback_exists => appdata_exists
          /\ IF ~appdata_exists
             THEN /\ log' = Append(log, [level |-> "error",
                                         msg |-> "AppData folder does not exist", row |-> Unbound])
                  /\ dpc' = "returned"
                  /\ UNCHANGED <<rows, skipped, dump_result, meta_conn, connections,
                                 cursors, last_call, ncalls>>
             ELSE LET r == meta_cursor(configured_exists, fallback_exists, opens)
                  IN /\ meta_conn' = r.conn
                     /\ connections' = r.conns
                     /\ cursors' = r.curs
                     /\ last_call' = [fn |-> "meta_cursor", result |-> r.result]
                     /\ ncalls' = ncalls + 1
                     /\ IF r.result = "cursor"
                        THEN /\ rows' = db_rows
                             /\ skipped' = 0
                             /\ dpc' = "loop"
                             /\ UNCHANGED dump_result
                        ELSE /\ dump_result' = r.result
                             /\ dpc' = "raised"
                             /\ UNCHANGED <<rows, skipped>>
                     /\ UNCHANGED log
    /\ UNCHANGED <<skip_existing, db_rows, storage, pos, row_i, run, visited, dumped,
                   master_conn>>
    /\ DumpOnly

\* One iteration of the loop of lines 85-125.
DumpRow ==
    /\ dpc = "loop"
    /\ pos < Len(rows)
    /\ LET row == rows[pos + 1]
           branch == row_branch(row, skip_existing, storage)
       IN /\ row_i' = pos
          /\ skipped' = skipped_after(branch, skipped)
          /\ storage' = storage_after(branch, row, storage)
          /\ log' = log \o logged_by(branch, row, pos)
          /\ visited' = Append(visited,
                [run |-> run, index |-> pos, row |-> row, branch |-> branch,
                 existed |-> (row.path \in storage),
                 before |-> skipped, after |-> skipped_after(branch, skipped)])
          /\ dumped' = IF branch = "dumped" /\ texture_dump(row.bundle).saved # <<>>
                       THEN dumped \cup {[run |-> run, path |-> row.path]}
                       ELSE dumped
    /\ pos' = pos + 1
    /\ UNCHANGED <<skip_existing, db_rows, rows, dump_result, dpc, run, connVars>>
    /\ DumpOnly

\* Line 127: logger.debug(f"finished processing {i} DB rows (skipped {skipped})")
DumpFinish ==
    /\ dpc = "loop"
    /\ pos = Len(rows)
    /\ IF row_i = Unbound
       THEN /\ dump_result' = "UnboundLocalError"
            /\ dpc' = "raised"
            /\ UNCHANGED log
       ELSE /\ log' = Append(log, [level |-> "debug", msg |-> "finished processing",
                                   row |-> row_i])
            /\ dpc' = "returned"
            /\ UNCHANGED dump_result
    /\ UNCHANGED <<skip_existing, db_rows, storage, rows, pos, row_i, skipped, run,
                   visited, dumped, connVars>>
    /\ DumpOnly

\* The tool is started again, in a new process, over the same storage.
DumpRerun ==
    /\ dpc \in {"returned", "raised"}
    /\ run < MaxRuns
    /\ run' = run + 1
    /\ skip_existing' \in BOOLEAN
    /\ rows' = <<>>
    /\ pos' = 0
    /\ row_i' = Unbound
    /\ skipped' = 0
    /\ log' = <<>>
    /\ dump_result' = "none"
    /\ dpc' = "start"
    /\ meta_conn' = None
    /\ master_conn' = None
    /\ connections' = <<>>
    /\ cursors' = <<>>
    /\ last_call' = [fn |-> "none", result |-> "none"]
    /\ ncalls' = 0
    /\ UNCHANGED <<db_rows, storage, visited, dumped>>
    /\ DumpOnly

DumpNext == DumpStart \/ DumpRow \/ DumpFinish \/ DumpRerun

(***************************************************************************)
(* Claims about assets_dump.                                               *)
(***************************************************************************)
ThisRun == {k \in 1..Len(visited) : visited[k].run = run}

\* C6: once the query has returned its rows, no exception escapes
\* assets_dump: whatever the rows (the empty list included) and whatever
\* happens at each of them, the loop visits every row and assets_dump
\* returns normally.
C6_NeverAborted ==
    /\ (dpc = "raised" => dump_result \in {"FileNotFoundError", "apsw.Error"})
    /\ (dpc = "returned" => pos = Len(rows))

\* A row hit one of the conditions C8 names.
HitMissingBlob(v) == ~v.row.abs /\ ~(skip_existing /\ v.existed) /\ ~v.row.blob
HitMalformed(v) == v.branch = "load_failed"
HitUnparseable(v) ==
    v.branch \in {"dumped", "texture_failed"} /\ ParseErrors(v.row.bundle.textures) > 0
HitExisting(v) == ~v.row.abs /\ skip_existing /\ v.existed

LoggedFor(index) == {n \in 1..Len(log) : log[n].row = index /\ log[n].level = "error"}

\* C8: every row that hits a missing blob, a malformed bundle or an
\* unparseable texture is logged and adds exactly one to skipped, and the
\* loop goes on; when the loop is over skipped is the number of rows that
\* hit one of these or were skipped because their target path existed.
C8_LoggedAndCounted ==
    /\ \A k \in ThisRun :
          (HitMissingBlob(visited[k]) \/ HitMalformed(visited[k]) \/ HitUnparseable(visited[k]))
             => /\ LoggedFor(visited[k].index) # {}
                /\ visited[k].after = visited[k].before + 1
    /\ Cardinality(ThisRun) = pos
    /\ (dpc = "loop" /\ pos = Len(rows)) =>
          skipped = Cardinality({k \in ThisRun :
                        \/ HitMissingBlob(visited[k])
                        \/ HitMalformed(visited[k])
                        \/ HitUnparseable(visited[k])
                        \/ HitExisting(visited[k])})

\* Whether texture_dump, entered for this row, raises: an atlas (there are
\* sprites) none of whose textures parses.
TextureDumpRaises(row) ==
    /\ row.bundle.sprites # <<>>
    /\ \A n \in 1..Len(row.bundle.textures) : ~row.bundle.textures[n].parses

\* The rows assets_dump counts: the target path exists (under
\* skip_existing), the blob is missing, decryption raises, or loading or
\* texture_dump raises.
Counted(v) ==
    /\ ~v.row.abs
    /\ \/ skip_existing /\ v.existed
       \/ ~v.row.blob
       \/ ~v.row.readable
       \/ ~v.row.loads
       \/ v.row.bundle.textures # <<>> /\ TextureDumpRaises(v.row)

\* The rows assets_dump logs an error for itself: decryption, loading or
\* texture_dump raised.
Failed(v) ==
    /\ ~v.row.abs
    /\ ~(skip_existing /\ v.existed)
    /\ v.row.blob
    /\ \/ ~v.row.readable
       \/ ~v.row.loads
       \/ v.row.bundle.textures # <<>> /\ TextureDumpRaises(v.row)

\* C8 as amended: a row adds exactly one to skipped when its target path
\* exists (under skip_existing), its blob is missing, its decryption raises
\* or its loading or texture_dump raises, and nothing otherwise; of these
\* only the rows whose decryption, loading or texture_dump raised have a
\* "Failed to ..." error logged by assets_dump (a missing blob or an
\* existing path is counted silently); an unparseable texture is logged by
\* texture_dump and by itself counts nothing; the loop goes on to the next
\* row in every case, and when it is over skipped is the number of rows
\* counted.
C8_Amended ==
    /\ \A k \in ThisRun :
          LET v == visited[k]
              failures == {n \in LoggedFor(v.index) :
                              log[n].msg \in {"Failed to decrypt", "Failed to load"}}
              parse_errors == {n \in LoggedFor(v.index) :
                              log[n].msg = "failed to parse texture image"}
          IN /\ v.after = v.before + (IF Counted(v) THEN 1 ELSE 0)
             /\ Cardinality(failures) = (IF Failed(v) THEN 1 ELSE 0)
             /\ (HitUnparseable(v) => parse_errors # {})
    /\ Cardinality(ThisRun) = pos
    /\ \A k \in ThisRun : visited[k].index < pos
    /\ (dpc \in {"loop", "returned", "raised"} /\ dump_result \in {"none", "UnboundLocalError"})
          => skipped = Cardinality({k \in ThisRun : Counted(visited[k])})

\* C8's case: a run whose loop is over after a row with a missing blob
\* (counted, not logged), a row with an unparseable texture beside a good
\* one (logged, not counted) and a row whose bundle is malformed (both).
C8_Witness ==
    /\ dpc = "returned"
    /\ pos = 3
    /\ skipped = 2
    /\ \E k \in ThisRun : ~visited[k].row.blob /\ LoggedFor(visited[k].index) = {}
    /\ \E k \in ThisRun : visited[k].branch = "dumped" /\ HitUnparseable(visited[k])
                          /\ visited[k].after = visited[k].before
    /\ \E k \in ThisRun : visited[k].branch = "load_failed"

\* C9: in a later run with skip_existing a row is skipped because its target
\* path exists only if an earlier run dumped that row's assets.
C9_ResumeOnlyDumped ==
    \A k \in 1..Len(visited) :
        (visited[k].run > 1 /\ visited[k].branch = "exists")
            => \E d \in dumped : d.run < visited[k].run /\ d.path = visited[k].row.path

InitCrypto == CryptoInit /\ KeyIdle /\ TexIdle /\ ConnIdle /\ DumpIdle

InitKey == KeyInit /\ CryptoIdle /\ TexIdle /\ ConnIdle /\ DumpIdle

InitTex == TexInit /\ CryptoIdle /\ KeyIdle /\ ConnIdle /\ DumpIdle

InitConn == ConnIdle /\ CryptoIdle /\ KeyIdle /\ TexIdle /\ DumpIdle

InitDump == DumpInit /\ CryptoIdle /\ KeyIdle /\ TexIdle /\ ConnIdle

SpecCrypto == InitCrypto /\ [][CryptoNext]_vars

SpecKey == InitKey /\ [][KeyNext]_vars

SpecTex == InitTex /\ [][TexNext]_vars

SpecConn == InitConn /\ [][ConnNext]_vars

SpecDump == InitDump /\ [][DumpNext]_vars

====
